---- MODULE Spec2Model ----
(***************************************************************************)
(* Model of gratflix.py: the text normaliser, the edit distance, the       *)
(* result ranker, the site scraper and the command-line driver.            *)
(* Strings are sequences of Unicode code points; byte strings are          *)
(* sequences of byte values.                                               *)
(***************************************************************************)
EXTENDS Integers, Sequences, FiniteSets, TLC

VARIABLES
  pc,          \* position of the routine being run
  s1, s2,      \* levenshteinDistance: its two arguments
  dist,        \* levenshteinDistance: the value returned
  nStory,      \* normalize: its argument
  nResult,     \* normalize: the value returned
  nAgain,      \* normalize applied to the value it returned
  args,        \* main: the parsed command line (story, list, site)
  configs,     \* main: the WebsiteConfig list built from config.json
  idx,         \* main: position of the all-sites loop in configs
  results,     \* main: the aggregated SearchResult list
  numWebsites, \* main: the site count shown in the summary
  sorted,      \* main: the value sortResults returned
  message,     \* main: the summary or diagnostic printed
  printed,     \* main: the result lines printed
  searchLog,   \* search: the "Searching on <URL>" lines printed, in order
  found,       \* search: the list returned by each call that returned
  resp,        \* search: what requests.get produced for the last call
  exc          \* the exception that ended the run, "" when none

levVars == <<s1, s2, dist>>
normVars == <<nStory, nResult, nAgain>>
mainVars == <<args, configs, idx, results, numWebsites, sorted, message,
              printed, searchLog, found, resp, exc>>
vars == <<pc, levVars, normVars, mainVars>>

\* Longest string handed to levenshteinDistance.
MaxLen == 3

\* The letters "a" and "b".
LevAlphabet == {97, 98, 99}

RECURSIVE SeqsUpTo(_, _)
SeqsUpTo(S, n) ==
  IF n = 0 THEN {<<>>}
  ELSE LET shorter == SeqsUpTo(S, n - 1)
       IN shorter \cup {Append(s, c) : s \in {t \in shorter : Len(t) = n - 1}, c \in S}

LevStrings == SeqsUpTo(LevAlphabet, MaxLen)

Min3(a, b, c) ==
  IF a <= b /\ a <= c THEN a ELSE IF b <= c THEN b ELSE c

\* A slip in line 116: the cell to the left, distances_[-1], is left out.
InnerStep_NoInsert(c1, c2, distances, distances_, i1) ==
  IF c1 = c2
  THEN distances[i1]
  ELSE 1 + (IF distances[i1] <= distances[i1 + 1]
            THEN distances[i1] ELSE distances[i1 + 1])

\* line 112-116: one cell of the new row; i1 is the 1-based position in s1.
InnerStep(c1, c2, distances, distances_, i1) ==
  IF c1 = c2
  THEN distances[i1]
  ELSE 1 + Min3(distances[i1], distances[i1 + 1], distances_[Len(distances_)])

\* line 111-116: for i1, c1 in enumerate(s1)
RECURSIVE InnerLoop(_, _, _, _, _)
InnerLoop(a, c2, distances, distances_, i1) ==
  IF i1 > Len(a) THEN distances_
  ELSE InnerLoop(a, c2, distances,
                 Append(distances_, InnerStep(a[i1], c2, distances, distances_, i1)),
                 i1 + 1)

\* line 109-117: for i2, c2 in enumerate(s2); i2 is 1-based, so [i2+1] is <<i2>>.
RECURSIVE OuterLoop(_, _, _, _)
OuterLoop(a, b, distances, i2) ==
  IF i2 > Len(b) THEN distances
  ELSE OuterLoop(a, b, InnerLoop(a, b[i2], distances, <<i2>>, 1), i2 + 1)

\* A slip in line 106: s1 = s2; s2 = s1 in place of the swap.
levenshteinDistance_BadSwap(a, b) ==
  LET swap == Len(a) > Len(b)
      x == IF swap THEN b ELSE a
      y == b
      row == OuterLoop(x, y, [k \in 1..(Len(x) + 1) |-> k - 1], 1)
  IN row[Len(row)]

\* line 102-118
levenshteinDistance(a, b) ==
  LET swap == Len(a) > Len(b)
      x == IF swap THEN b ELSE a
      y == IF swap THEN a ELSE b
      row == OuterLoop(x, y, [k \in 1..(Len(x) + 1) |-> k - 1], 1)
  IN row[Len(row)]

(***************************************************************************)
(* The classic Levenshtein distance, from its definition: the least number *)
(* of single-character edits that turn a into b.  A shortest edit script   *)
(* can delete and substitute before it inserts, so it never needs a string *)
(* longer than the longer of a and b, nor a character outside them.        *)
(***************************************************************************)
RemoveAt(s, i) == SubSeq(s, 1, i - 1) \o SubSeq(s, i + 1, Len(s))
InsertAt(s, i, c) == SubSeq(s, 1, i - 1) \o <<c>> \o SubSeq(s, i, Len(s))
ReplaceAt(s, i, c) == [s EXCEPT ![i] = c]

OneEdit(s) ==
  {RemoveAt(s, i) : i \in 1..Len(s)}
  \cup {ReplaceAt(s, i, c) : i \in 1..Len(s), c \in LevAlphabet}
  \cup (IF Len(s) < MaxLen
        THEN {InsertAt(s, i, c) : i \in 1..(Len(s) + 1), c \in LevAlphabet}
        ELSE {})

RECURSIVE LeastEdits(_, _, _)
LeastEdits(reached, b, k) ==
  IF b \in reached THEN k
  ELSE LeastEdits(reached \cup UNION {OneEdit(s) : s \in reached}, b, k + 1)

EditDistance(a, b) == LeastEdits({a}, b, 0)


(***************************************************************************)
(* normalize.  A Python value is a record: its type and its elements.      *)
(***************************************************************************)
Str(v) == [type |-> "str", val |-> v]
Bytes(v) == [type |-> "bytes", val |-> v]
TypeError == [type |-> "TypeError", val |-> <<>>]

\* The characters the stories and titles are drawn from:
\* space ! _ A a b 1, e-acute, combining acute, sharp s,
\* U+2474 parenthesized digit one, U+FB01 ligature fi, U+FF21 fullwidth A.
NormChars == {32, 33, 95, 65, 97, 98, 49, 233, 769, 223, 9332, 64257, 65313}

\* str.isalnum(), what \w matches besides the underscore: the ASCII digits
\* and letters and, of NormChars, e-acute, sharp s, U+2474, U+FB01, U+FF21.
IsAlnum(c) ==
  \/ c >= 48 /\ c <= 57
  \/ c >= 65 /\ c <= 90
  \/ c >= 97 /\ c <= 122
  \/ c \in {233, 223, 9332, 64257, 65313}

\* \w: the alphanumerics and the underscore.
IsWordChar(c) == IsAlnum(c) \/ c = 95

\* line 125: [\W_] matches whatever is not a word character, and the underscore.
IsStripped(c) == ~IsWordChar(c) \/ c = 95

\* unicodedata.normalize('NFKD', c) on NormChars.
NFKD(c) ==
  CASE c = 233 -> <<101, 769>>
    [] c = 9332 -> <<40, 49, 41>>
    [] c = 64257 -> <<102, 105>>
    [] c = 65313 -> <<65>>
    [] OTHER -> <<c>>

RECURSIVE Decompose(_)
Decompose(s) == IF s = <<>> THEN <<>> ELSE NFKD(Head(s)) \o Decompose(Tail(s))

IsAscii(c) == c < 128

\* bytes.lower(): the ASCII capitals only.
LowerByte(c) == IF c >= 65 /\ c <= 90 THEN c + 32 ELSE c

Keep(c) == ~IsStripped(c)

\* line 121-127
normalize(story) ==
  IF story.type # "str" THEN TypeError
  ELSE LET stripped == SelectSeq(story.val, Keep)
           encoded == SelectSeq(Decompose(stripped), IsAscii)
       IN Bytes([i \in 1..Len(encoded) |-> LowerByte(encoded[i])])

(***************************************************************************)
(* sortResults                                                             *)
(***************************************************************************)
\* A slip in line 138-139: the title is compared without being normalized.
Distances_Raw(story, rs) ==
  LET storyNorm == normalize(Str(story))
  IN [i \in 1..Len(rs) |-> levenshteinDistance(storyNorm.val, rs[i].title)]

\* line 136-139: the distance of each result's title to the story.
Distances(story, rs) ==
  LET storyNorm == normalize(Str(story))
  IN [i \in 1..Len(rs) |->
        levenshteinDistance(storyNorm.val, normalize(Str(rs[i].title)).val)]

\* line 142: zip(distances, results)
Zip(ds, rs) ==
  LET n == IF Len(ds) < Len(rs) THEN Len(ds) ELSE Len(rs)
  IN [i \in 1..n |-> <<ds[i], rs[i]>>]

\* A slip in line 142: the pairs go through a dict keyed by distance, so a
\* later result replaces an earlier one of equal distance.
InsertByKey_Unique(acc, p) ==
  LET k == Cardinality({i \in 1..Len(acc) : acc[i][1] < p[1]})
      same == k < Len(acc) /\ acc[k + 1][1] = p[1]
  IN SubSeq(acc, 1, k) \o <<p>>
       \o SubSeq(acc, IF same THEN k + 2 ELSE k + 1, Len(acc))

\* A slip in line 142: an unstable sort, equal keys end up reversed.
InsertByKey_Before(acc, p) ==
  LET k == Cardinality({i \in 1..Len(acc) : acc[i][1] < p[1]})
  IN SubSeq(acc, 1, k) \o <<p>> \o SubSeq(acc, k + 1, Len(acc))

\* One insertion of sorted(..., key=pair[0]): after every pair whose key is
\* not greater, so that equal keys keep their order.
InsertByKey(acc, p) ==
  LET k == Cardinality({i \in 1..Len(acc) : acc[i][1] <= p[1]})
  IN SubSeq(acc, 1, k) \o <<p>> \o SubSeq(acc, k + 1, Len(acc))

RECURSIVE SortedByKey(_, _)
SortedByKey(pairs, acc) ==
  IF pairs = <<>> THEN acc
  ELSE SortedByKey(Tail(pairs), InsertByKey(acc, Head(pairs)))

\* line 130-142
sortResults(story, rs) ==
  LET ordered == SortedByKey(Zip(Distances(story, rs), rs), <<>>)
  IN [i \in 1..Len(ordered) |-> ordered[i][2]]

(***************************************************************************)
(* search                                                                  *)
(***************************************************************************)
\* A URL is its network location (0 when the URL is relative) and its path.
Url(netloc, path) == [netloc |-> netloc, path |-> path]

\* line 46-48
isAbsolute(url) == url.netloc # 0

\* urllib.parse.urljoin of a base and a relative URL.
urljoin(base, url) == Url(base.netloc, url.path)

SearchResult(title, URL) == [title |-> title, URL |-> URL]

\* line 15-30; the selectors and the search pattern decide what the fetched
\* page yields, which the response carries.
WebsiteConfig(i) == [URL |-> Url(i, 0)]

\* What select_one found in one item: a link (with its href) or None, a title
\* (with its text) or None.
Item(hasLink, href, hasTitle, title) ==
  [hasLink |-> hasLink, href |-> href, hasTitle |-> hasTitle, title |-> title]

Returned(rs) == [exc |-> "", results |-> rs]
Raised(e) == [exc |-> e, results |-> <<>>]

\* line 83-90
RECURSIVE ScrapeItems(_, _, _)
ScrapeItems(config, items, acc) ==
  IF items = <<>> THEN Returned(acc)
  ELSE LET item == Head(items)
           movieURL == IF isAbsolute(item.href) THEN item.href
                       ELSE urljoin(config.URL, item.href)
       IN IF ~item.hasLink THEN Raised("TypeError")
          ELSE IF ~item.hasTitle THEN Raised("AttributeError")
          ELSE ScrapeItems(config, Tail(items),
                           Append(acc, SearchResult(item.title, movieURL)))

\* line 74-92: the only exception caught is requests.exceptions.Timeout.
search(story, config, response) ==
  IF response.kind = "timeout" THEN Returned(<<>>)
  ELSE IF response.kind = "transport_error" THEN Raised("ConnectionError")
  ELSE ScrapeItems(config, response.items, <<>>)

(***************************************************************************)
(* main                                                                    *)
(***************************************************************************)
\* Most sites config.json lists.
MaxSites == 2
\* Most items one fetched page holds.
MaxItems == 2

\* An optional argument: argparse leaves None when it is not given.
None(dflt) == [some |-> FALSE, v |-> dflt]
Some(x) == [some |-> TRUE, v |-> x]

\* The story "a".
Story == <<97>>

ArgSet ==
  [story : {None(<<>>), Some(Story)},
   list : BOOLEAN,
   site : {None(0)} \cup {Some(k) : k \in (0 - MaxSites - 1)..MaxSites}]

\* The items a page may hold: titles "ab", "A", "a"; a relative and an
\* absolute href; an item without a link; an item without a title.
ItemKinds ==
  {Item(TRUE, Url(0, 1), TRUE, <<97, 98>>),
   Item(TRUE, Url(9, 2), TRUE, <<65>>),
   Item(TRUE, Url(0, 3), TRUE, <<97>>),
   Item(FALSE, Url(0, 0), TRUE, <<97>>),
   Item(TRUE, Url(0, 4), FALSE, <<>>)}

NoResponse == [kind |-> "none", status |-> 0, items |-> <<>>]

\* What requests.get may produce: a timeout, another transport failure, or a
\* response.  The status is never read; an error response carries a page in
\* which the item selector matches nothing.
Responses ==
  {[kind |-> "timeout", status |-> 0, items |-> <<>>],
   [kind |-> "transport_error", status |-> 0, items |-> <<>>],
   [kind |-> "page", status |-> 404, items |-> <<>>]}
  \cup {[kind |-> "page", status |-> 200, items |-> it] :
          it \in SeqsUpTo(ItemKinds, MaxItems)}

\* configs[i] as Python indexes a list: from the end when i is negative.
InRange(seq, i) == i < Len(seq) /\ i >= 0 - Len(seq)
PyIndex(seq, i) == IF i >= 0 THEN seq[i + 1] ELSE seq[Len(seq) + i + 1]

MainIdle ==
  /\ args = [story |-> None(<<>>), list |-> FALSE, site |-> None(0)]
  /\ configs = <<>>
  /\ idx = 1
  /\ results = <<>>
  /\ numWebsites = 0
  /\ sorted = <<>>
  /\ message = ""
  /\ printed = <<>>
  /\ searchLog = <<>>
  /\ found = <<>>
  /\ resp = NoResponse
  /\ exc = ""

LevIdle == s1 = <<>> /\ s2 = <<>> /\ dist = 0

NormIdle == nStory = Str(<<>>) /\ nResult = Str(<<>>) /\ nAgain = Str(<<>>)

\* line 145-150: the command line is parsed; nothing is loaded yet.
MainInit ==
  /\ pc = "main_start"
  /\ \E a \in ArgSet :
       /\ args = a
       /\ configs = <<>> /\ idx = 1 /\ results = <<>> /\ numWebsites = 0
       /\ sorted = <<>> /\ message = "" /\ printed = <<>> /\ searchLog = <<>>
       /\ found = <<>> /\ resp = NoResponse /\ exc = ""
  /\ LevIdle
  /\ NormIdle

\* line 152-163: config.json is read, or reading it raises.
LoadConfigs ==
  /\ pc = "main_start"
  /\ \/ \E n \in 0..MaxSites :
          /\ configs' = [i \in 1..n |-> WebsiteConfig(i)]
          /\ pc' = "main_loaded"
          /\ exc' = exc
     \/ /\ exc' = "ConfigError"
        /\ pc' = "main_raised"
        /\ configs' = configs
  /\ UNCHANGED <<args, idx, results, numWebsites, sorted, message, printed,
                 searchLog, found, resp>>
  /\ UNCHANGED <<levVars, normVars>>

\* line 165-169
ListMode ==
  /\ pc = "main_loaded"
  /\ args.list
  /\ message' = "list"
  /\ pc' = "main_returned"
  /\ UNCHANGED <<args, configs, idx, results, numWebsites, sorted, printed,
                 searchLog, found, resp, exc>>
  /\ UNCHANGED <<levVars, normVars>>

\* line 171-175: parser.error prints the usage and exits with status 2.
MissingStory ==
  /\ pc = "main_loaded"
  /\ ~args.list
  /\ ~args.story.some
  /\ message' = "usage: Missing search keywords"
  /\ pc' = "main_exited"
  /\ UNCHANGED <<args, configs, idx, results, numWebsites, sorted, printed,
                 searchLog, found, resp, exc>>
  /\ UNCHANGED <<levVars, normVars>>

\* line 179-182
SiteOutOfBounds ==
  /\ pc = "main_loaded"
  /\ ~args.list
  /\ args.story.some
  /\ args.site.some
  /\ args.site.v >= Len(configs)
  /\ message' = "Website index out of bounds"
  /\ pc' = "main_returned"
  /\ UNCHANGED <<args, configs, idx, results, numWebsites, sorted, printed,
                 searchLog, found, resp, exc>>
  /\ UNCHANGED <<levVars, normVars>>

\* line 179-184: configs[args.site] raises IndexError below -len(configs),
\* and otherwise the one site is searched.
SearchSingle ==
  /\ pc = "main_loaded"
  /\ ~args.list
  /\ args.story.some
  /\ args.site.some
  /\ ~(args.site.v >= Len(configs))
  /\ \/ /\ ~InRange(configs, args.site.v)
        /\ exc' = "IndexError"
        /\ pc' = "main_raised"
        /\ UNCHANGED <<results, numWebsites, searchLog, found, resp>>
     \/ /\ InRange(configs, args.site.v)
        /\ \E response \in Responses :
             LET config == PyIndex(configs, args.site.v)
                 r == search(args.story.v, config, response)
             IN /\ searchLog' = Append(searchLog, config.URL)
                /\ resp' = response
                /\ IF r.exc # ""
                   THEN /\ exc' = r.exc
                        /\ pc' = "main_raised"
                        /\ UNCHANGED <<results, numWebsites, found>>
                   ELSE /\ found' = Append(found, r.results)
                        /\ results' = r.results
                        /\ numWebsites' = 1
                        /\ pc' = "main_sort"
                        /\ exc' = exc
  /\ UNCHANGED <<args, configs, idx, sorted, message, printed>>
  /\ UNCHANGED <<levVars, normVars>>

\* line 177-178, 185-187: no --site; the loop over configs begins.
AllSites ==
  /\ pc = "main_loaded"
  /\ ~args.list
  /\ args.story.some
  /\ ~args.site.some
  /\ results' = <<>>
  /\ numWebsites' = Len(configs)
  /\ idx' = 1
  /\ pc' = IF Len(configs) = 0 THEN "main_sort" ELSE "main_loop"
  /\ UNCHANGED <<args, configs, sorted, message, printed, searchLog, found,
                 resp, exc>>
  /\ UNCHANGED <<levVars, normVars>>

\* line 187-188: one iteration, results = results + search(story, config).
SearchNext ==
  /\ pc = "main_loop"
  /\ \E response \in Responses :
       LET config == configs[idx]
           r == search(args.story.v, config, response)
       IN /\ searchLog' = Append(searchLog, config.URL)
          /\ resp' = response
          /\ IF r.exc # ""
             THEN /\ exc' = r.exc
                  /\ pc' = "main_raised"
                  /\ UNCHANGED <<results, idx, found>>
             ELSE /\ found' = Append(found, r.results)
                  /\ results' = results \o r.results
                  /\ idx' = idx + 1
                  /\ pc' = IF idx + 1 > Len(configs) THEN "main_sort" ELSE "main_loop"
                  /\ exc' = exc
  /\ UNCHANGED <<args, configs, numWebsites, sorted, message, printed>>
  /\ UNCHANGED <<levVars, normVars>>

\* line 190-199
SortAndDisplay ==
  /\ pc = "main_sort"
  /\ sorted' = sortResults(args.story.v, results)
  /\ message' = "Found"
  /\ printed' = sorted'
  /\ pc' = "main_returned"
  /\ UNCHANGED <<args, configs, idx, results, numWebsites, searchLog, found,
                 resp, exc>>
  /\ UNCHANGED <<levVars, normVars>>

MainNext ==
  \/ LoadConfigs
  \/ ListMode
  \/ MissingStory
  \/ SiteOutOfBounds
  \/ SearchSingle
  \/ AllSites
  \/ SearchNext
  \/ SortAndDisplay

SpecMain == MainInit /\ [][MainNext]_vars

(***************************************************************************)
(* levenshteinDistance called on every pair of strings of LevStrings.      *)
(***************************************************************************)
LevInit ==
  /\ pc = "lev_call"
  /\ s1 \in LevStrings
  /\ s2 \in LevStrings
  /\ dist = 0
  /\ NormIdle
  /\ MainIdle

LevCall ==
  /\ pc = "lev_call"
  /\ dist' = levenshteinDistance(s1, s2)
  /\ pc' = "lev_return"
  /\ UNCHANGED <<s1, s2, normVars, mainVars>>

SpecLev == LevInit /\ [][LevCall]_vars

(***************************************************************************)
(* normalize called on every string of NormStrings, then on what it        *)
(* returned.                                                               *)
(***************************************************************************)
\* Longest string handed to normalize.
MaxStoryLen == 2

NormStrings == SeqsUpTo(NormChars, MaxStoryLen)

NormInit ==
  /\ pc = "norm_call"
  /\ \E s \in NormStrings : nStory = Str(s)
  /\ nResult = Str(<<>>)
  /\ nAgain = Str(<<>>)
  /\ LevIdle
  /\ MainIdle

NormCall ==
  /\ pc = "norm_call"
  /\ nResult' = normalize(nStory)
  /\ pc' = "norm_return"
  /\ UNCHANGED <<nStory, nAgain, levVars, mainVars>>

NormAgain ==
  /\ pc = "norm_return"
  /\ nAgain' = normalize(nResult)
  /\ pc' = "norm_again"
  /\ UNCHANGED <<nStory, nResult, levVars, mainVars>>

NormNext == NormCall \/ NormAgain

SpecNorm == NormInit /\ [][NormNext]_vars

(***************************************************************************)
(* sortResults called on every story of SortStories and every list of at   *)
(* most MaxResults results of SortInputs.                                  *)
(***************************************************************************)
\* Longest list handed to sortResults.
MaxResults == 3

\* The stories "", "a", "ab".
SortStories == {<<>>, <<97>>, <<97, 98>>}

\* The titles "", "a", "A", "ab", "b!", "_a b", each under two URLs.
SortInputs ==
  {SearchResult(t, Url(1, u)) :
     t \in {<<>>, <<97>>, <<65>>, <<97, 98>>, <<98, 33>>, <<95, 97, 32, 98>>},
     u \in {1, 2}}

SortInit ==
  /\ pc = "sort_call"
  /\ \E q \in SortStories :
       args = [story |-> Some(q), list |-> FALSE, site |-> None(0)]
  /\ results \in SeqsUpTo(SortInputs, MaxResults)
  /\ configs = <<>> /\ idx = 1 /\ numWebsites = 0
  /\ sorted = <<>> /\ message = "" /\ printed = <<>> /\ searchLog = <<>>
  /\ found = <<>> /\ resp = NoResponse /\ exc = ""
  /\ LevIdle
  /\ NormIdle

SortCall ==
  /\ pc = "sort_call"
  /\ sorted' = sortResults(args.story.v, results)
  /\ pc' = "sort_return"
  /\ UNCHANGED <<args, configs, idx, results, numWebsites, message, printed,
                 searchLog, found, resp, exc>>
  /\ UNCHANGED <<levVars, normVars>>

SpecSort == SortInit /\ [][SortCall]_vars

(***************************************************************************)
(* Properties                                                              *)
(***************************************************************************)
Count(x, seq) == Cardinality({i \in 1..Len(seq) : seq[i] = x})

SeqRange(seq) == {seq[i] : i \in 1..Len(seq)}

\* The score of a result: the distance of its normalized title to the
\* normalized story.
Score(story, r) ==
  levenshteinDistance(normalize(Str(story)).val, normalize(Str(r.title)).val)

\* The results of seq whose score is k, in the order seq has them.
WithScore(story, seq, k) ==
  LET Has(r) == Score(story, r) = k
  IN SelectSeq(seq, Has)

RECURSIVE Flatten(_)
Flatten(seqs) == IF seqs = <<>> THEN <<>> ELSE Head(seqs) \o Flatten(Tail(seqs))

\* C1: sortResults returns a permutation of results: every element as many
\* times as the input has it, none added and none dropped.
C1_Permutation ==
  pc = "sort_return" =>
    /\ Len(sorted) = Len(results)
    /\ \A x \in SeqRange(results) \cup SeqRange(sorted) :
         Count(x, sorted) = Count(x, results)

\* C1 witness: a list of three results, the first and the last the same
\* result, that the call has put in another order.
C1_Witness ==
  /\ pc = "sort_return"
  /\ Len(results) = 3
  /\ results[1] = results[3]
  /\ results[2] # results[1]
  /\ sorted # results

\* C2: the output of sortResults is in ascending order of score.
C2_Ascending ==
  pc = "sort_return" =>
    \A i \in 1..Len(sorted) : \A j \in 1..Len(sorted) :
      i < j => Score(args.story.v, sorted[i]) <= Score(args.story.v, sorted[j])

\* C2 witness: an input in strictly descending order of score, sorted.
C2_Witness ==
  /\ pc = "sort_return"
  /\ Len(results) = 3
  /\ Score(args.story.v, results[1]) > Score(args.story.v, results[2])
  /\ Score(args.story.v, results[2]) > Score(args.story.v, results[3])

AllSitesMode == ~args.list /\ args.story.some /\ ~args.site.some

\* C3: sortResults is stable, results of equal score keep their input
\* order; in all-sites mode the input is the per-site results concatenated
\* in config order, each in scrape order.
C3_Stable ==
  (pc = "main_returned" /\ message = "Found") =>
    /\ \A r \in SeqRange(results) :
         WithScore(args.story.v, sorted, Score(args.story.v, r))
           = WithScore(args.story.v, results, Score(args.story.v, r))
    /\ AllSitesMode =>
         /\ Len(found) = Len(configs)
         /\ searchLog = [i \in 1..Len(configs) |-> configs[i].URL]
         /\ results = Flatten(found)

\* C3 witness: two sites, the first returning two results and the second
\* one that ties with a result of the first; the ranking moved a result.
C3_Witness ==
  /\ pc = "main_returned"
  /\ message = "Found"
  /\ AllSitesMode
  /\ Len(found) = 2
  /\ Len(found[1]) = 2
  /\ Len(found[2]) = 1
  /\ \E i \in 1..2 :
       /\ Score(args.story.v, found[1][i]) = Score(args.story.v, found[2][1])
       /\ found[1][i].title # found[2][1].title
  /\ sorted # results

\* C4: levenshteinDistance is the classic Levenshtein distance, the least
\* number of single-character insertions, deletions and substitutions; so
\* distance(a, a) = 0 and distance(a, "") = distance("", a) = len(a).
C4_Classic ==
  pc = "lev_return" =>
    /\ dist = EditDistance(s1, s2)
    /\ (s1 = s2 => dist = 0)
    /\ (s2 = <<>> => dist = Len(s1))
    /\ (s1 = <<>> => dist = Len(s2))

\* C4 witness: a longer first argument, some characters kept and some not.
C4_Witness ==
  /\ pc = "lev_return"
  /\ Len(s1) = 3
  /\ Len(s2) = 2
  /\ dist = 2

\* C5: levenshteinDistance is symmetric, whether or not the operands are
\* swapped.
C5_Symmetric ==
  pc = "lev_return" => dist = levenshteinDistance(s2, s1)

\* C5 witness: the first argument is longer, so the operands were swapped.
C5_Witness ==
  /\ pc = "lev_return"
  /\ Len(s1) > Len(s2)
  /\ s2 # <<>>
  /\ dist > Len(s1) - Len(s2)

\* C6: the output of normalize holds only ASCII lowercase letters and
\* ASCII digits.
C6_AsciiAlnumLower ==
  pc = "norm_return" =>
    /\ nResult.type = "bytes"
    /\ \A i \in 1..Len(nResult.val) :
         \/ nResult.val[i] >= 97 /\ nResult.val[i] <= 122
         \/ nResult.val[i] >= 48 /\ nResult.val[i] <= 57

\* C7: normalize is idempotent, normalize(normalize(x)) == normalize(x).
C7_Idempotent ==
  pc = "norm_again" => nAgain = nResult

\* C7, read with the bytes decoded back to a string before the second
\* call: normalize(normalize(x).decode()) == normalize(x).
C7_IdempotentDecoded ==
  pc = "norm_return" => normalize(Str(nResult.val)) = nResult

\* C8: search returns an empty list and never raises when the HTTP request
\* fails, by a timeout or by any other transport failure.
C8_SearchNeverRaises ==
  resp.kind \in {"timeout", "transport_error"} =>
    /\ exc = ""
    /\ Len(found) = Len(searchLog)
    /\ found[Len(found)] = <<>>

Misuse ==
  /\ ~args.list
  /\ \/ ~args.story.some
     \/ /\ args.site.some
        /\ (args.site.v < 0 \/ args.site.v >= Len(configs))

\* C9: CLI misuse (no story without --list, or a --site index outside
\* 0 .. len(configs)-1) ends the run with no site searched, sortResults not
\* called, and the misuse reported.
C9_MisuseStops ==
  (Misuse /\ pc \notin {"main_start", "lev_call", "lev_return", "norm_call",
                        "norm_return", "norm_again", "sort_call", "sort_return"}
          /\ exc # "ConfigError") =>
    /\ searchLog = <<>>
    /\ pc # "main_sort"
    /\ message # "Found"
    /\ pc \in {"main_returned", "main_exited", "main_raised"} =>
         message \in {"usage: Missing search keywords", "Website index out of bounds"}

\* A scraper-level failure: a timeout, an HTTP error response, or selectors
\* that match nothing (no item, or an item without its link or its title).
ScraperFailure(r) ==
  \/ r.kind = "timeout"
  \/ /\ r.kind = "page"
     /\ \/ r.status # 200
        \/ r.items = <<>>
        \/ \E i \in 1..Len(r.items) : ~r.items[i].hasLink \/ ~r.items[i].hasTitle

\* C10: in all-sites mode a scraper-level failure on one site makes it
\* contribute nothing and never aborts the run: every site is searched in
\* config order, sortResults runs on the concatenation of what the sites
\* returned, and the ranked listing is printed.
C10_FailureTolerated ==
  AllSitesMode =>
    /\ ScraperFailure(resp) =>
         /\ pc # "main_raised"
         /\ Len(found) = Len(searchLog)
         /\ found[Len(found)] = <<>>
    /\ pc = "main_returned" =>
         /\ searchLog = [i \in 1..Len(configs) |-> configs[i].URL]
         /\ sorted = sortResults(args.story.v, Flatten(found))
         /\ printed = sorted
         /\ message = "Found"
====
